---- MODULE Spec2Model ----
(***************************************************************************)
(* Model of the Linear issue query and cycle analytics core                *)
(* (src/linear/src/linear_tools.py, class LinearTools) and of the event    *)
(* generator of the streaming endpoint (src/linear/src/http_server.py).    *)
(*                                                                         *)
(* Python values are modelled as follows.  A scalar is a one-field record  *)
(* whose field name is its type tag: [none |-> TRUE], [str |-> "abc"],     *)
(* [int |-> 3], [bool |-> TRUE]; a list is [list |-> <<...>>]; a dict is a *)
(* function from its string keys to values (no dict of the model uses a    *)
(* tag name as a key).  An operation that may raise is an operator that    *)
(* yields an outcome: Ok(v) for a returned value, Raise(text) for an       *)
(* exception whose str() is text.                                          *)
(***************************************************************************)
EXTENDS Integers, Sequences, FiniteSets, TLC

VARIABLES
    client,   \* the call conventions self.client exposes
    call,     \* the public operation in progress, with its inputs and what the remote does
    sent,     \* the requests handed to the transport during the call
    ret,      \* the outcome of the call: Ok(value) or Raise(text)
    api_key,  \* the credential the instance was constructed with
    steps,    \* the calls the transport made during the call, in order
    queue,      \* the streaming handler's queue of event lines, oldest first
    is_running, \* the streaming handler's flag
    task,       \* the background agent task: none, running, succeeded or failed
    emitted,    \* the event lines the generator has yielded, in order
    pc,         \* where the event generator is suspended
    history     \* every event line the callbacks have put on the queue, in order

vars == <<client, call, sent, ret, api_key, steps,
          queue, is_running, task, emitted, pc, history>>

\* the state of one request to the streaming endpoint
stream_vars == <<queue, is_running, task, emitted, pc, history>>

----------------------------------------------------------------------------
(* Bounds of the explored inputs *)

MaxIds == 2
MaxFields == 2
MaxNodes == 2
Horizon == 4
MaxEvents == 2

----------------------------------------------------------------------------
(* Python values *)

PyNone == [none |-> TRUE]
PyStr(s) == [str |-> s]
PyInt(n) == [int |-> n]
PyBool(b) == [bool |-> b]
PyList(s) == [list |-> s]

RECURSIVE GCD(_, _)
GCD(a, b) == IF b = 0 THEN a ELSE GCD(b, a % b)

Abs(n) == IF n < 0 THEN -n ELSE n

\* the float n / d, kept as the exact fraction in lowest terms (d /= 0)
PyFloat(n, d) ==
    LET g == GCD(Abs(n), Abs(d))
        sign == IF d < 0 THEN -1 ELSE 1
    IN [float |-> [num |-> sign * (n \div g), den |-> sign * (d \div g)]]

Tags == {"none", "str", "int", "bool", "list", "float"}

IsNone(v) == "none" \in DOMAIN v
IsStr(v) == "str" \in DOMAIN v
IsInt(v) == "int" \in DOMAIN v
IsBool(v) == "bool" \in DOMAIN v
IsList(v) == "list" \in DOMAIN v
IsFloat(v) == "float" \in DOMAIN v
IsDict(v) == DOMAIN v \cap Tags = {}

EmptyDict == <<>>

\* bool(v): the truth value Python's `if v` / `not v` uses
Truthy(v) ==
    IF IsNone(v) THEN FALSE
    ELSE IF IsStr(v) THEN v.str /= ""
    ELSE IF IsInt(v) THEN v.int /= 0
    ELSE IF IsBool(v) THEN v.bool
    ELSE IF IsList(v) THEN Len(v.list) > 0
    ELSE IF IsFloat(v) THEN v.float.num /= 0
    ELSE DOMAIN v /= {}

\* d.get(k): the value under k, None when the key is absent
Get(d, k) == IF k \in DOMAIN d THEN d[k] ELSE PyNone

\* the text an f-string interpolates for v, which is str(v)
Format(v) ==
    IF IsNone(v) THEN "None"
    ELSE IF IsStr(v) THEN v.str
    ELSE IF IsInt(v) THEN ToString(v.int)
    ELSE IF IsBool(v) THEN (IF v.bool THEN "True" ELSE "False")
    ELSE ToString(v)

\* json.dumps(v): the JSON text of v
RECURSIVE json_dumps(_), dump_members(_, _)
dump_members(d, ks) ==
    IF ks = {} THEN ""
    ELSE LET k == CHOOSE x \in ks : TRUE
         IN "\"" \o k \o "\": " \o json_dumps(d[k])
            \o (IF ks \ {k} = {} THEN "" ELSE ", " \o dump_members(d, ks \ {k}))

json_dumps(v) ==
    IF IsNone(v) THEN "null"
    ELSE IF IsStr(v) THEN "\"" \o v.str \o "\""
    ELSE IF IsInt(v) THEN ToString(v.int)
    ELSE IF IsBool(v) THEN (IF v.bool THEN "true" ELSE "false")
    ELSE IF IsFloat(v) THEN ToString(v.float.num) \o "/" \o ToString(v.float.den)
    ELSE IF IsList(v)
    THEN LET F[i \in 0..Len(v.list)] ==
                 IF i = 0 THEN ""
                 ELSE IF i = 1 THEN json_dumps(v.list[1])
                 ELSE F[i - 1] \o ", " \o json_dumps(v.list[i])
         IN "[" \o F[Len(v.list)] \o "]"
    ELSE "{" \o dump_members(v, DOMAIN v) \o "}"

Ok(v) == [raised |-> FALSE, value |-> v]
Raise(text) == [raised |-> TRUE, exc |-> text]

KeyError(k) == "'" \o k \o "'"
NotIterable == "argument of type 'NoneType' is not iterable"
NotSubscriptable == "'NoneType' object is not subscriptable"

Range(s) == {s[i] : i \in DOMAIN s}

----------------------------------------------------------------------------
(* Raw issue nodes the remote service may return *)

FullNode(id) ==
    [id |-> PyStr("uuid-" \o id), title |-> PyStr("Title " \o id),
     identifier |-> PyStr(id), description |-> PyNone, priority |-> PyInt(2),
     state |-> [id |-> PyStr("s1"), name |-> PyStr("Done"), type |-> PyStr("completed")],
     assignee |-> [id |-> PyStr("u1"), name |-> PyStr("John"), displayName |-> PyStr("john")],
     team |-> [id |-> PyStr("t1"), name |-> PyStr("Infra"), key |-> PyStr("INF")],
     cycle |-> [id |-> PyStr("c1"), name |-> PyStr("Sprint 19"), number |-> PyInt(19),
                startsAt |-> PyStr("2025-01-01T00:00:00.000Z"),
                endsAt |-> PyStr("2025-01-03T00:00:00.000Z")],
     labels |-> [nodes |-> PyList(<<[id |-> PyStr("l1"), name |-> PyStr("bug"),
                                     color |-> PyStr("#ff0000")]>>)],
     createdAt |-> PyStr("2025-01-01T00:00:00.000Z"),
     updatedAt |-> PyStr("2025-01-02T00:00:00.000Z")]

\* every nested object null
BareNode(id) ==
    [FullNode(id) EXCEPT !.state = PyNone, !.assignee = PyNone, !.team = PyNone,
                         !.cycle = PyNone, !.labels = PyNone]

\* d without the key k
Without(d, k) == [x \in DOMAIN d \ {k} |-> d[x]]

\* a node that lacks a scalar the normalizer subscripts
NoTitleNode(id) == Without(FullNode(id), "title")

\* the nested objects of a raw node
NestedKeys == {"state", "assignee", "team", "cycle", "labels"}

\* a node whose only non-null nested object is the one under k
OnlyNode(k, id) == [BareNode(id) EXCEPT ![k] = FullNode(id)[k]]

----------------------------------------------------------------------------
(* ResponseNormalizer: the dict literal of list_issues and get_issue *)

\* d[k] for each k of keys in turn: the KeyError texts of the failing ones
Req(d, keys) ==
    LET F[i \in 0..Len(keys)] ==
            IF i = 0 THEN <<>>
            ELSE F[i - 1] \o (IF keys[i] \in DOMAIN d THEN <<>> ELSE <<KeyError(keys[i])>>)
    IN F[Len(keys)]

\* Nested without the `if issue[k]` test: a null object is subscripted
Nested_unguarded(issue, k, subs) ==
    IF k \notin DOMAIN issue THEN <<KeyError(k)>>
    ELSE IF ~IsDict(issue[k]) THEN <<NotSubscriptable>>
    ELSE Req(issue[k], subs)

\* issue[k][s] if issue[k] else None, for each s of subs in turn
Nested(issue, k, subs) ==
    IF k \notin DOMAIN issue THEN <<KeyError(k)>>
    ELSE IF ~Truthy(issue[k]) THEN <<>>
    ELSE IF ~IsDict(issue[k]) THEN <<"string indices must be integers">>
    ELSE Req(issue[k], subs)

\* the label comprehension over issue["labels"]["nodes"]
LabelFailures(issue) ==
    IF "labels" \notin DOMAIN issue THEN <<KeyError("labels")>>
    ELSE IF ~Truthy(issue.labels) THEN <<>>
    ELSE IF "nodes" \notin DOMAIN issue.labels THEN <<KeyError("nodes")>>
    ELSE IF ~IsList(issue.labels.nodes) THEN <<"'NoneType' object is not iterable">>
    ELSE LET ls == issue.labels.nodes.list
             F[i \in 0..Len(ls)] ==
                 IF i = 0 THEN <<>> ELSE F[i - 1] \o Req(ls[i], <<"id", "name", "color">>)
         IN F[Len(ls)]

\* the failures the literal's entries raise, in evaluation order
NormalizeFailures(issue) ==
    Req(issue, <<"id", "title", "identifier", "description", "priority">>)
    \o Nested(issue, "state", <<"name", "type", "id">>)
    \o Nested(issue, "assignee", <<"name", "id">>)
    \o Nested(issue, "team", <<"name", "id", "key">>)
    \o (IF Truthy(Get(issue, "cycle"))
        THEN Req(issue.cycle, <<"id", "name", "number", "startsAt", "endsAt">>)
        ELSE <<>>)
    \o LabelFailures(issue)
    \o Req(issue, <<"createdAt", "updatedAt">>)

Labels(issue) ==
    IF Truthy(issue.labels)
    THEN PyList([i \in DOMAIN issue.labels.nodes.list |->
                    LET label == issue.labels.nodes.list[i]
                    IN [id |-> label.id, name |-> label.name, color |-> label.color]])
    ELSE PyList(<<>>)

processed_issue(issue) ==
    [id |-> issue.id,
     title |-> issue.title,
     identifier |-> issue.identifier,
     description |-> issue.description,
     priority |-> issue.priority,
     status |-> IF Truthy(issue.state) THEN issue.state.name ELSE PyNone,
     state_type |-> IF Truthy(issue.state) THEN issue.state.type ELSE PyNone,
     state_id |-> IF Truthy(issue.state) THEN issue.state.id ELSE PyNone,
     assignee |-> IF Truthy(issue.assignee) THEN issue.assignee.name ELSE PyNone,
     assignee_id |-> IF Truthy(issue.assignee) THEN issue.assignee.id ELSE PyNone,
     team |-> IF Truthy(issue.team) THEN issue.team.name ELSE PyNone,
     team_id |-> IF Truthy(issue.team) THEN issue.team.id ELSE PyNone,
     team_key |-> IF Truthy(issue.team) THEN issue.team.key ELSE PyNone,
     cycle |-> IF Truthy(Get(issue, "cycle"))
               THEN [id |-> issue.cycle.id, name |-> issue.cycle.name,
                     number |-> issue.cycle.number,
                     starts_at |-> issue.cycle.startsAt, ends_at |-> issue.cycle.endsAt]
               ELSE PyNone,
     labels |-> Labels(issue),
     created_at |-> issue.createdAt,
     updated_at |-> issue.updatedAt]

\* the normalized record, or the exception the literal raises
normalize(issue) ==
    IF IsNone(issue) THEN Raise(NotSubscriptable)
    ELSE IF ~IsDict(issue) THEN Raise("string indices must be integers")
    ELSE IF NormalizeFailures(issue) /= <<>> THEN Raise(Head(NormalizeFailures(issue)))
    ELSE Ok(processed_issue(issue))

----------------------------------------------------------------------------
(* Transport: LinearTools._execute_graphql *)

Conventions == <<"query", "raw_query", "execute", "graphql">>

\* the client libraries explored: which call conventions self.client exposes
Clients == {{}, {"raw_query", "graphql"}}

\* the first convention, in the fixed order, that hasattr finds on the client
FirstExposed(c) ==
    LET F[i \in 1..(Len(Conventions) + 1)] ==
            IF i > Len(Conventions) THEN "none"
            ELSE IF Conventions[i] \in c THEN Conventions[i]
            ELSE F[i + 1]
    IN F[1]

\* the direct POST: status check, decoding, errors check
http_post(http) ==
    IF http.status /= 200
    THEN Raise("GraphQL request failed with status " \o ToString(http.status)
               \o ": " \o http.text)
    ELSE IF "errors" \in DOMAIN http.json
    THEN Raise("GraphQL errors: " \o json_dumps(http.json.errors))
    ELSE Ok(http.json)

\* remote.bound is what the awaited client-bound call does, remote.http what
\* the endpoint answers to the POST
execute_graphql(c, remote) ==
    IF FirstExposed(c) /= "none" /\ ~remote.bound.raised
    THEN Ok(remote.bound.value)
    ELSE http_post(remote.http)

\* PostStep with an authorization scheme before the credential
PostStep_bearer(key) ==
    [via |-> "post", url |-> "https://api.linear.app/graphql",
     headers |-> ("Content-Type" :> "application/json")
                 @@ ("Authorization" :> "Bearer " \o key)]

\* the session.post call: the endpoint and the headers
PostStep(key) ==
    [via |-> "post", url |-> "https://api.linear.app/graphql",
     headers |-> ("Content-Type" :> "application/json") @@ ("Authorization" :> key)]

\* the calls one execution of _execute_graphql makes, in order: the first
\* exposed convention if any, then the POST unless that call returned
transport_steps(c, key, remote) ==
    (IF FirstExposed(c) /= "none" THEN <<[via |-> FirstExposed(c)]>> ELSE <<>>)
    \o (IF FirstExposed(c) /= "none" /\ ~remote.bound.raised THEN <<>>
        ELSE <<PostStep(key)>>)

\* what the remote side may do during one transport call that carries body
BoundFails == Raise("client call failed")
HttpOk(body) == [status |-> 200, text |-> "", json |-> body]
HttpDown == [status |-> 500, text |-> "Internal Server Error", json |-> EmptyDict]
GraphqlErrors == PyList(<<[message |-> PyStr("Entity not found")]>>)

Remotes(bodies, boundBodies) ==
    {[bound |-> Ok(b), http |-> HttpDown] : b \in boundBodies \cup {PyNone}}
    \cup {[bound |-> BoundFails, http |-> HttpDown]}
    \cup {[bound |-> BoundFails, http |-> HttpOk(b)] : b \in bodies}
    \cup {[bound |-> BoundFails, http |-> HttpOk([errors |-> GraphqlErrors])]}
    \cup {[bound |-> BoundFails,
           http |-> HttpOk([x \in DOMAIN b \cup {"errors"} |->
                               IF x = "errors" THEN PyList(<<>>) ELSE b[x]])] :
          b \in boundBodies}

----------------------------------------------------------------------------
(* get_issue *)

Ids == {"INF-10", "INF-11"}

IssueBody(issue) == [data |-> [issue |-> issue]]

GetBoundBodies(id) == {IssueBody(FullNode(id)), IssueBody(PyNone)}

GetBodies(id) ==
    GetBoundBodies(id)
    \cup {EmptyDict, [data |-> EmptyDict], [data |-> PyNone],
          IssueBody(BareNode(id)), IssueBody(NoTitleNode(id))}

GetRemotes(id) == Remotes(GetBodies(id), GetBoundBodies(id))

ErrorEntry(msg) == [error |-> PyStr(msg)]

\* get_issue_slot without the `if not issue` test: a null body reaches the
\* normalizer
get_issue_slot_no_null_test(c, issue_id, remote) ==
    LET r == execute_graphql(c, remote)
        caught(text) == ErrorEntry("Error getting issue " \o issue_id \o ": " \o text)
        unexpected(result) ==
            ErrorEntry("Unexpected response format for issue " \o issue_id \o ": "
                       \o json_dumps(result))
    IN IF r.raised THEN caught(r.exc)
       ELSE IF ~IsDict(r.value) THEN caught(NotIterable)
       ELSE IF "data" \notin DOMAIN r.value THEN unexpected(r.value)
       ELSE IF ~IsDict(r.value.data) THEN caught(NotIterable)
       ELSE IF "issue" \notin DOMAIN r.value.data THEN unexpected(r.value)
       ELSE IF normalize(r.value.data.issue).raised
       THEN caught(normalize(r.value.data.issue).exc)
       ELSE normalize(r.value.data.issue).value

\* one iteration of the loop over ids: the entry appended to results
get_issue_slot(c, issue_id, remote) ==
    LET r == execute_graphql(c, remote)
        caught(text) == ErrorEntry("Error getting issue " \o issue_id \o ": " \o text)
        unexpected(result) ==
            ErrorEntry("Unexpected response format for issue " \o issue_id \o ": "
                       \o json_dumps(result))
    IN IF r.raised THEN caught(r.exc)
       ELSE IF ~IsDict(r.value) THEN caught(NotIterable)
       ELSE IF "data" \notin DOMAIN r.value THEN unexpected(r.value)
       ELSE IF ~IsDict(r.value.data) THEN caught(NotIterable)
       ELSE IF "issue" \notin DOMAIN r.value.data THEN unexpected(r.value)
       ELSE IF ~Truthy(r.value.data.issue)
       THEN ErrorEntry("Issue with ID " \o issue_id \o " not found")
       ELSE IF normalize(r.value.data.issue).raised
       THEN caught(normalize(r.value.data.issue).exc)
       ELSE normalize(r.value.data.issue).value

\* get_issue_results with a loop that ends at the first failed identifier,
\* after appending its {error} entry
get_issue_results_abort(c, ids, remotes) ==
    LET F[i \in 0..Len(ids)] ==
            IF i = 0 THEN <<>>
            ELSE IF Len(F[i - 1]) < i - 1 THEN F[i - 1]
            ELSE IF i > 1 /\ "error" \in DOMAIN F[i - 1][i - 1] THEN F[i - 1]
            ELSE Append(F[i - 1], get_issue_slot(c, ids[i], remotes[i]))
    IN F[Len(ids)]

\* results after the loop has run over ids[1..n]
get_issue_results(c, ids, remotes) ==
    LET F[i \in 0..Len(ids)] ==
            IF i = 0 THEN <<>>
            ELSE Append(F[i - 1], get_issue_slot(c, ids[i], remotes[i]))
    IN F[Len(ids)]

\* get_issue that unwraps whenever one identifier was asked for
get_issue_unwrap_one(c, id, remotes) ==
    LET ids == IF IsStr(id) THEN <<id.str>> ELSE id.list
        results == get_issue_results(c, ids, remotes)
    IN IF Len(ids) = 1 THEN Ok(results[1])
       ELSE Ok([issues |-> PyList(results)])

get_issue(c, id, remotes) ==
    LET return_single == IsStr(id)
        ids == IF IsStr(id) THEN <<id.str>> ELSE id.list
        results == get_issue_results(c, ids, remotes)
    IN IF return_single THEN Ok(results[1])
       ELSE Ok([issues |-> PyList(results)])

\* the transport's calls over the loop of get_issue, one execution per identifier
steps_of_all(c, key, remotes) ==
    LET F[i \in 0..Len(remotes)] ==
            IF i = 0 THEN <<>> ELSE F[i - 1] \o transport_steps(c, key, remotes[i])
    IN F[Len(remotes)]

\* sequences over S of length 0..n
SeqsUpTo(S, n) == UNION {[1..k -> S] : k \in 0..n}

GetInputs == {PyStr(i) : i \in Ids} \cup {PyList(s) : s \in SeqsUpTo(Ids, MaxIds)}

IdsOf(id) == IF IsStr(id) THEN <<id.str>> ELSE id.list

AllGetRemotes == UNION {GetRemotes(i) : i \in Ids}

----------------------------------------------------------------------------
(* FilterCompiler: the filter_parts of list_issues *)

\* one fragment of filter_parts: key: { sub: { op: val } }, or key: { op: val }
\* when sub is empty; quoted tells whether val is written between double quotes
Frag(key, sub, op, val, quoted) ==
    [key |-> key, sub |-> sub, op |-> op, val |-> val, quoted |-> quoted]

\* the text of a fragment, as the f-string writes it
Render(f) ==
    LET v == IF f.quoted THEN "\"" \o f.val \o "\"" ELSE f.val
        inner == f.op \o ": " \o v
    IN IF f.sub = "" THEN f.key \o ": { " \o inner \o " }"
       ELSE f.key \o ": { " \o f.sub \o ": { " \o inner \o " } }"

\* if params.get(k): filter_parts.append(key: { sub: { op: "value" } })
Part(params, k, key, sub, op) ==
    IF Truthy(Get(params, k)) THEN <<Frag(key, sub, op, Format(params[k]), TRUE)>>
    ELSE <<>>

PriorityPart(params) ==
    IF Truthy(Get(params, "priority"))
    THEN <<Frag("priority", "", "eq", Format(params["priority"]), FALSE)>>
    ELSE <<>>

AssigneePart(params) ==
    IF IsNone(Get(params, "assignee")) THEN <<>>
    ELSE IF params["assignee"] = PyStr("") THEN <<Frag("assignee", "", "null", "true", FALSE)>>
    ELSE <<Frag("assignee", "name", "contains", Format(params["assignee"]), TRUE)>>

\* filter_parts with a substring match on the label name
filter_parts_label_contains(params) ==
    Part(params, "teamId", "team", "id", "eq")
    \o Part(params, "projectId", "project", "id", "eq")
    \o Part(params, "labelId", "labels", "id", "eq")
    \o Part(params, "label", "labels", "name", "contains")
    \o Part(params, "stateId", "state", "id", "eq")
    \o Part(params, "status", "state", "name", "eq")
    \o PriorityPart(params)
    \o AssigneePart(params)
    \o Part(params, "title", "title", "", "contains")
    \o Part(params, "cycle", "cycle", "name", "eq")

filter_parts(params) ==
    Part(params, "teamId", "team", "id", "eq")
    \o Part(params, "projectId", "project", "id", "eq")
    \o Part(params, "labelId", "labels", "id", "eq")
    \o Part(params, "label", "labels", "name", "eq")
    \o Part(params, "stateId", "state", "id", "eq")
    \o Part(params, "status", "state", "name", "eq")
    \o PriorityPart(params)
    \o AssigneePart(params)
    \o Part(params, "title", "title", "", "contains")
    \o Part(params, "cycle", "cycle", "name", "eq")

\* ", ".join(filter_parts)
filter_string(parts) ==
    LET F[i \in 0..Len(parts)] ==
            IF i = 0 THEN ""
            ELSE IF i = 1 THEN Render(parts[1])
            ELSE F[i - 1] \o ", " \o Render(parts[i])
    IN F[Len(parts)]

filter_arg(parts) ==
    IF filter_string(parts) /= "" THEN "filter: { " \o filter_string(parts) \o " }" ELSE ""

\* params = params or {}
OrEmpty(params) == IF Truthy(params) THEN params ELSE EmptyDict

\* the request list_issues hands to the transport
list_issues_request(params) ==
    [operation |-> "Issues",
     filter_parts |-> filter_parts(OrEmpty(params)),
     filter_arg |-> filter_arg(filter_parts(OrEmpty(params))),
     variables |-> [first |-> IF "first" \in DOMAIN OrEmpty(params)
                              THEN params["first"] ELSE PyInt(50)]]

----------------------------------------------------------------------------
(* list_issues *)

\* list_issues_nodes with a loop that skips a node it cannot normalize
list_issues_nodes_skip(issues) ==
    LET F[i \in 0..Len(issues)] ==
            IF i = 0 THEN Ok(<<>>)
            ELSE IF normalize(issues[i]).raised THEN F[i - 1]
            ELSE Ok(Append(F[i - 1].value, normalize(issues[i]).value))
    IN F[Len(issues)]

\* processed_issues after the loop over the returned nodes, or the first failure
list_issues_nodes(issues) ==
    LET F[i \in 0..Len(issues)] ==
            IF i = 0 THEN Ok(<<>>)
            ELSE IF F[i - 1].raised THEN F[i - 1]
            ELSE IF normalize(issues[i]).raised THEN Raise(normalize(issues[i]).exc)
            ELSE Ok(Append(F[i - 1].value, normalize(issues[i]).value))
    IN F[Len(issues)]

\* the try block of list_issues: the value returned, or the exception caught
list_issues_try(c, remote) ==
    LET r == execute_graphql(c, remote)
    IN IF r.raised THEN r
       ELSE IF ~IsDict(r.value) THEN Raise(NotIterable)
       ELSE IF "data" \notin DOMAIN r.value
       THEN Raise("Unexpected response format: " \o json_dumps(r.value))
       ELSE IF ~IsDict(r.value.data) THEN Raise(NotIterable)
       ELSE IF "issues" \notin DOMAIN r.value.data
       THEN Raise("Unexpected response format: " \o json_dumps(r.value))
       ELSE IF ~IsDict(r.value.data.issues) THEN Raise(NotSubscriptable)
       ELSE IF "nodes" \notin DOMAIN r.value.data.issues THEN Raise(KeyError("nodes"))
       ELSE IF ~IsList(r.value.data.issues.nodes)
       THEN Raise("'NoneType' object is not iterable")
       ELSE IF list_issues_nodes(r.value.data.issues.nodes.list).raised
       THEN list_issues_nodes(r.value.data.issues.nodes.list)
       ELSE Ok([nodes |-> PyList(list_issues_nodes(r.value.data.issues.nodes.list).value)])

list_issues(c, params, remote) ==
    IF list_issues_try(c, remote).raised
    THEN Ok(ErrorEntry("Error listing issues: " \o list_issues_try(c, remote).exc))
    ELSE list_issues_try(c, remote)

\* the filter specifications explored: at most MaxFields of the recognized keys
Keys == {"teamId", "projectId", "labelId", "label", "stateId", "status", "priority",
         "assignee", "assigneeId", "unassigned", "cycle", "title", "first"}

UuidText == "3f2c1a9e-5b7d-4c1e-9a2b-7d6e5f4c3b2a"

ParamValues(k) ==
    CASE k = "teamId" -> {PyStr("t1")}
      [] k = "projectId" -> {PyStr("p1")}
      [] k = "labelId" -> {PyStr("l1")}
      [] k = "label" -> {PyStr("bug")}
      [] k = "stateId" -> {PyStr("s1")}
      [] k = "status" -> {PyStr("Done")}
      [] k = "priority" -> {PyInt(n) : n \in 0..4}
                           \cup {PyStr(t) : t \in {"urgent", "high", "medium", "low", "none",
                                                   "Urgent", "HIGH", "critical"}}
      [] k = "assignee" -> {PyNone, PyStr(""), PyStr("John")}
      [] k = "assigneeId" -> {PyStr("John"), PyStr(UuidText)}
      [] k = "unassigned" -> {PyBool(TRUE), PyBool(FALSE)}
      [] k = "cycle" -> {PyStr("Sprint 19"), PyStr("")}
      [] k = "title" -> {PyStr("login")}
      [] k = "first" -> {PyInt(10)}

RECURSIVE SpecsOver(_)
SpecsOver(S) ==
    IF S = {} THEN {EmptyDict}
    ELSE LET k == CHOOSE x \in S : TRUE
         IN {[x \in S |-> IF x = k THEN v ELSE f[x]] :
                f \in SpecsOver(S \ {k}), v \in ParamValues(k)}

FilterSpecs ==
    {PyNone} \cup UNION {SpecsOver(S) : S \in {T \in SUBSET Keys : Cardinality(T) <= MaxFields}}

IssuesBody(nodes) == [data |-> [issues |-> [nodes |-> PyList(nodes)]]]

\* the explored calls vary the filter under a few remote behaviours, and the
\* remote behaviour under a few filters
PlainSpecs == {PyNone, [cycle |-> PyStr("Sprint 19")]}

PlainRemotes ==
    {[bound |-> BoundFails, http |-> HttpDown],
     [bound |-> BoundFails, http |-> HttpOk(IssuesBody(<<FullNode("INF-11")>>))]}

\* the raw nodes of a list response: position i carries identifier INF-1i
NodeKinds == {"full", "bare", "notitle"}
PosId(i) == "INF-1" \o ToString(i)
KindNode(kind, i) ==
    CASE kind = "full" -> FullNode(PosId(i))
      [] kind = "bare" -> BareNode(PosId(i))
      [] kind = "notitle" -> NoTitleNode(PosId(i))

ListBoundBodies == {IssuesBody(<<KindNode("full", 1)>>)}

\* responses whose nodes have exactly one nested object non-null
NestedBodies ==
    {IssuesBody(<<OnlyNode(k, PosId(1))>>) : k \in NestedKeys}
    \cup {IssuesBody(<<BareNode(PosId(1)), OnlyNode(k, PosId(2))>>) : k \in NestedKeys}

\* responses whose only node lacks one key altogether
MissingKeys == {"description", "state", "assignee", "team", "cycle", "labels", "updatedAt"}

MissingBodies == {IssuesBody(<<Without(FullNode(PosId(1)), k)>>) : k \in MissingKeys}

ListBodies ==
    {EmptyDict, [data |-> EmptyDict], [data |-> [issues |-> EmptyDict]]}
    \cup NestedBodies
    \cup MissingBodies
    \cup {IssuesBody([i \in DOMAIN ks |-> KindNode(ks[i], i)]) : ks \in SeqsUpTo(NodeKinds, MaxNodes)}

ListRemotes == Remotes(ListBodies, ListBoundBodies)

----------------------------------------------------------------------------
(* CycleAnalytics: get_cycle_status *)

\* instants are counted in half days from 2025-01-01T00:00Z
UnitsPerDay == 2

\* the ISO text of instant t, as the remote service writes it
DateText(t) ==
    "2025-01-0" \o ToString((t \div UnitsPerDay) + 1)
    \o (IF t % UnitsPerDay = 0 THEN "T00:00:00.000Z" ELSE "T12:00:00.000Z")

\* dateutil.parser.parse(v): the instant a date text denotes
parse(v) ==
    IF ~IsStr(v) THEN Raise("Parser must be a string or character stream, not NoneType")
    ELSE IF \E t \in 0..Horizon : DateText(t) = v.str
    THEN Ok(CHOOSE t \in 0..Horizon : DateText(t) = v.str)
    ELSE Raise("Unknown string format: " \o v.str)

\* timedelta.days of a difference of instants: whole days, rounded down
days(delta) == delta \div UnitsPerDay

\* str.lower() on the status names of the model
lower(s) ==
    CASE s = "Done" -> "done"
      [] s = "Urgent" -> "urgent"
      [] s = "HIGH" -> "high"
      [] s = "Canceled" -> "canceled"
      [] s = "In Progress" -> "in progress"
      [] s = "DONE" -> "done"
      [] s = "Completed" -> "completed"
      [] s = "Todo" -> "todo"
      [] s = "Undone" -> "undone"
      [] OTHER -> s

CompletedNames == {"done", "completed", "cancelled", "canceled"}

\* the fraction an int or a float stands for
Num(x) == IF IsInt(x) THEN [num |-> x.int, den |-> 1] ELSE x.float

\* Geq with a strict comparison
Geq_strict(x, y) == Num(x).num * Num(y).den > Num(y).num * Num(x).den

\* x >= y on numbers
Geq(x, y) == Num(x).num * Num(y).den >= Num(y).num * Num(x).den

\* f"{x:.1f}": one decimal, ties to even
Fmt1(x) ==
    LET n == Abs(Num(x).num)
        d == Num(x).den
        t == (n * 10) \div d
        rem == (n * 10) % d
        tenths == IF 2 * rem > d \/ (2 * rem = d /\ t % 2 = 1) THEN t + 1 ELSE t
    IN (IF Num(x).num < 0 THEN "-" ELSE "")
       \o ToString(tenths \div 10) \o "." \o ToString(tenths % 10)

\* cycle_info_of without the break: the last issue whose cycle is truthy
cycle_info_of_last(nodes) ==
    LET F[i \in 0..Len(nodes)] ==
            IF i = 0 THEN PyNone
            ELSE IF Truthy(Get(nodes[i], "cycle")) THEN nodes[i].cycle
            ELSE F[i - 1]
    IN F[Len(nodes)]

\* the first issue, in returned order, whose cycle is truthy: its cycle, else None
cycle_info_of(nodes) ==
    LET F[i \in 1..(Len(nodes) + 1)] ==
            IF i > Len(nodes) THEN PyNone
            ELSE IF Truthy(Get(nodes[i], "cycle")) THEN nodes[i].cycle
            ELSE F[i + 1]
    IN F[1]

\* d with d[k] set to v
Put(d, k, v) == [x \in DOMAIN d \cup {k} |-> IF x = k THEN v ELSE d[x]]

\* count_issue with completed_count advanced by the status's running count
count_issue_cumulative(acc, issue) ==
    LET status == Get(issue, "status")
    IN IF ~Truthy(status) THEN acc
       ELSE LET s == status.str
                counts == IF s \in DOMAIN acc.status_counts THEN acc.status_counts
                          ELSE Put(acc.status_counts, s, 0)
                groups == IF s \in DOMAIN acc.status_counts THEN acc.issues_by_status
                          ELSE Put(acc.issues_by_status, s, <<>>)
            IN [status_counts |-> Put(counts, s, counts[s] + 1),
                issues_by_status |->
                    Put(groups, s, Append(groups[s], [id |-> Get(issue, "identifier"),
                                                      title |-> Get(issue, "title")])),
                completed_count |->
                    IF lower(s) \in CompletedNames
                    THEN acc.completed_count + counts[s] + 1
                    ELSE acc.completed_count]

\* count_issue with the status compared as written, without lower()
count_issue_case_sensitive(acc, issue) ==
    LET status == Get(issue, "status")
    IN IF ~Truthy(status) THEN acc
       ELSE LET s == status.str
                counts == IF s \in DOMAIN acc.status_counts THEN acc.status_counts
                          ELSE Put(acc.status_counts, s, 0)
                groups == IF s \in DOMAIN acc.status_counts THEN acc.issues_by_status
                          ELSE Put(acc.issues_by_status, s, <<>>)
            IN [status_counts |-> Put(counts, s, counts[s] + 1),
                issues_by_status |->
                    Put(groups, s, Append(groups[s], [id |-> Get(issue, "identifier"),
                                                      title |-> Get(issue, "title")])),
                completed_count |->
                    IF s \in CompletedNames THEN acc.completed_count + 1
                    ELSE acc.completed_count]

\* count_issue with each group entry labelled by the issue's internal id
count_issue_internal_id(acc, issue) ==
    LET status == Get(issue, "status")
    IN IF ~Truthy(status) THEN acc
       ELSE LET s == status.str
                counts == IF s \in DOMAIN acc.status_counts THEN acc.status_counts
                          ELSE Put(acc.status_counts, s, 0)
                groups == IF s \in DOMAIN acc.status_counts THEN acc.issues_by_status
                          ELSE Put(acc.issues_by_status, s, <<>>)
            IN [status_counts |-> Put(counts, s, counts[s] + 1),
                issues_by_status |->
                    Put(groups, s, Append(groups[s], [id |-> Get(issue, "id"),
                                                      title |-> Get(issue, "title")])),
                completed_count |->
                    IF lower(s) \in CompletedNames THEN acc.completed_count + 1
                    ELSE acc.completed_count]

\* one iteration of the loop that counts and groups the issues
count_issue(acc, issue) ==
    LET status == Get(issue, "status")
    IN IF ~Truthy(status) THEN acc
       ELSE LET s == status.str
                counts == IF s \in DOMAIN acc.status_counts THEN acc.status_counts
                          ELSE Put(acc.status_counts, s, 0)
                groups == IF s \in DOMAIN acc.status_counts THEN acc.issues_by_status
                          ELSE Put(acc.issues_by_status, s, <<>>)
            IN [status_counts |-> Put(counts, s, counts[s] + 1),
                issues_by_status |->
                    Put(groups, s, Append(groups[s], [id |-> Get(issue, "identifier"),
                                                      title |-> Get(issue, "title")])),
                completed_count |->
                    IF lower(s) \in CompletedNames THEN acc.completed_count + 1
                    ELSE acc.completed_count]

\* the loop over the issues; each iteration works on the accumulated value of
\* the one before
count_issues(nodes) ==
    LET F[i \in 0..Len(nodes)] ==
            IF i = 0
            THEN [status_counts |-> EmptyDict, issues_by_status |-> EmptyDict,
                  completed_count |-> 0]
            ELSE CHOOSE r \in {count_issue(acc, nodes[i]) : acc \in {F[i - 1]}} : TRUE
    IN F[Len(nodes)]

\* the part of get_cycle_status after cycle_info is found; end and start are
\* the parsed instants
cycle_report(nodes, cycle_info, cycle_end, cycle_start, now) ==
    LET acc == count_issues(nodes)
        total_count == Len(nodes)
        completion_percentage ==
            IF total_count > 0 THEN PyFloat(acc.completed_count * 100, total_count)
            ELSE PyInt(0)
        total_days == days(cycle_end - cycle_start)
        days_passed == days(now - cycle_start)
        days_left == days(cycle_end - now)
        elapsed == PyFloat(days_passed * 100, total_days)
        verdict ==
            IF days_left <= 0
            THEN [on_track |-> PyBool(FALSE), reason |-> PyStr("Cycle has ended")]
            ELSE IF Geq(completion_percentage, elapsed)
            THEN [on_track |-> PyBool(TRUE),
                  reason |-> PyStr("Completion rate (" \o Fmt1(completion_percentage)
                                   \o "%) is on pace with time elapsed ("
                                   \o Fmt1(elapsed) \o "%)")]
            ELSE [on_track |-> PyBool(FALSE),
                  reason |-> PyStr("Completion rate (" \o Fmt1(completion_percentage)
                                   \o "%) is behind time elapsed ("
                                   \o Fmt1(elapsed) \o "%)")]
    IN IF days_left > 0 /\ total_days = 0 THEN Raise("division by zero")
       ELSE Ok([cycle_details |->
                    [name |-> cycle_info.name,
                     number |-> cycle_info.number,
                     starts_at |-> cycle_info.starts_at,
                     ends_at |-> cycle_info.ends_at,
                     total_days |-> PyInt(total_days),
                     days_passed |-> PyInt(days_passed),
                     days_left |-> PyInt(days_left)],
                ticket_counts |->
                    [total |-> PyInt(total_count),
                     by_status |-> [k \in DOMAIN acc.status_counts |->
                                       PyInt(acc.status_counts[k])],
                     completed |-> PyInt(acc.completed_count),
                     remaining |-> PyInt(total_count - acc.completed_count)],
                completion_stats |->
                    [percentage |-> completion_percentage,
                     time_elapsed_percentage |->
                         IF total_days > 0 THEN elapsed ELSE PyInt(100)],
                progress_tracking |-> verdict,
                issues_by_status |-> [k \in DOMAIN acc.issues_by_status |->
                                         PyList(acc.issues_by_status[k])]])

\* cycle_status_of that tests for a nodes key but not for an empty list
cycle_status_of_no_empty_test(issues, cycle_name, now) ==
    LET nodes == issues.nodes.list
        cycle_info == cycle_info_of(nodes)
    IN IF "nodes" \notin DOMAIN issues
       THEN Ok(ErrorEntry("No issues found for cycle '" \o Format(cycle_name)
                          \o "' or cycle does not exist"))
       ELSE IF ~Truthy(cycle_info)
       THEN Ok(ErrorEntry("Could not retrieve cycle information for '"
                          \o Format(cycle_name) \o "'"))
       ELSE IF parse(cycle_info.ends_at).raised THEN parse(cycle_info.ends_at)
       ELSE IF parse(cycle_info.starts_at).raised THEN parse(cycle_info.starts_at)
       ELSE cycle_report(nodes, cycle_info, parse(cycle_info.ends_at).value,
                         parse(cycle_info.starts_at).value, now)

\* get_cycle_status from line 355 on: issues is what list_issues returned
cycle_status_of(issues, cycle_name, now) ==
    LET nodes == issues.nodes.list
        cycle_info == cycle_info_of(nodes)
    IN IF ~Truthy(issues) \/ ~Truthy(Get(issues, "nodes"))
       THEN Ok(ErrorEntry("No issues found for cycle '" \o Format(cycle_name)
                          \o "' or cycle does not exist"))
       ELSE IF ~Truthy(cycle_info)
       THEN Ok(ErrorEntry("Could not retrieve cycle information for '"
                          \o Format(cycle_name) \o "'"))
       ELSE IF parse(cycle_info.ends_at).raised THEN parse(cycle_info.ends_at)
       ELSE IF parse(cycle_info.starts_at).raised THEN parse(cycle_info.starts_at)
       ELSE cycle_report(nodes, cycle_info, parse(cycle_info.ends_at).value,
                         parse(cycle_info.starts_at).value, now)

get_cycle_status(c, cycle_name, remote, now) ==
    cycle_status_of(list_issues(c, [cycle |-> cycle_name], remote).value, cycle_name, now)

\* the try block of get_cycle_status_tool_func: result is the outcome of the
\* awaited LinearTools.get_cycle_status; whatever the block raises leaves as
\* a ToolException
tool_outcome(cycle_name, result) ==
    LET ToolException(text) == Raise("Error getting cycle status: " \o text)
    IN IF ~Truthy(cycle_name) THEN ToolException("Cycle name is required")
       ELSE IF result.raised THEN ToolException(result.exc)
       ELSE IF "error" \in DOMAIN result.value THEN result
       ELSE Ok([cycle_details |-> result.value.cycle_details,
                ticket_counts |-> result.value.ticket_counts,
                completion_stats |-> result.value.completion_stats,
                progress_tracking |-> result.value.progress_tracking,
                issues_by_status |-> result.value.issues_by_status])

\* langchain_integration.get_cycle_status_tool_func: the wrapper the agent's
\* CycleStatusTool awaits
get_cycle_status_tool_func(c, cycle_name, remote, now) ==
    tool_outcome(cycle_name, get_cycle_status(c, cycle_name, remote, now))

\* the cycle data the issues of a response carry
CycleData(name, number, startsAt, endsAt) ==
    [id |-> PyStr("c" \o ToString(number)), name |-> PyStr(name), number |-> PyInt(number),
     startsAt |-> startsAt, endsAt |-> endsAt]

\* a whole cycle, one shorter than a day, one that ends before it starts
PrimaryCycles ==
    {CycleData("Sprint 19", 19, PyStr(DateText(0)), PyStr(DateText(Horizon))),
     CycleData("Sprint 19", 19, PyStr(DateText(0)), PyStr(DateText(1))),
     CycleData("Sprint 19", 19, PyStr(DateText(Horizon)), PyStr(DateText(0)))}

\* a cycle of another team that bears the same name
SecondaryCycle == CycleData("Sprint 19", 7, PyStr(DateText(1)), PyStr(DateText(Horizon)))

StateOf(name) ==
    IF name = "" THEN PyNone
    ELSE [id |-> PyStr("s-" \o name), name |-> PyStr(name),
          type |-> PyStr(IF lower(name) \in CompletedNames THEN "completed" ELSE "started")]

StateNames == {"", "Done", "In Progress"}
CycleSlots == {"none", "primary", "secondary"}

\* the node at position i: its state name and which cycle data it carries
CycleNode(i, kind, primary) ==
    [FullNode(PosId(i)) EXCEPT
        !.state = StateOf(kind[1]),
        !.cycle = CASE kind[2] = "none" -> PyNone
                    [] kind[2] = "primary" -> primary
                    [] kind[2] = "secondary" -> SecondaryCycle]

CycleBodies ==
    {IssuesBody([i \in DOMAIN ks |-> CycleNode(i, ks[i], p)]) :
        ks \in SeqsUpTo(StateNames \X CycleSlots, MaxNodes), p \in PrimaryCycles}

\* status names in several spellings, completed ones and others
StatusVariants == {"DONE", "Completed", "cancelled", "Canceled", "Todo", "Undone"}

\* responses whose issues carry those names and the data of one cycle
StatusBodies ==
    {IssuesBody([i \in DOMAIN ns |->
                    [FullNode(PosId(i)) EXCEPT !.state = StateOf(ns[i])]]) :
        ns \in SeqsUpTo(StatusVariants, MaxNodes)}

CycleNames == {PyStr("Sprint 19"), PyStr(""), PyNone}

Nows == (0 - UnitsPerDay)..(Horizon + 1)

\* the explored calls: every name and every remote failure at one instant,
\* every issue set at every instant under one name, and every spelling of the
\* status names at one instant
CycleCalls ==
    {[cycle_name |-> n, remote |-> r, now |-> 1] : n \in CycleNames, r \in ListRemotes}
    \cup {[cycle_name |-> PyStr("Sprint 19"),
           remote |-> [bound |-> BoundFails, http |-> HttpOk(b)], now |-> t] :
          b \in CycleBodies, t \in Nows}
    \cup {[cycle_name |-> PyStr("Sprint 19"),
           remote |-> [bound |-> BoundFails, http |-> HttpOk(b)], now |-> 1] :
          b \in StatusBodies}

----------------------------------------------------------------------------
(* State machine: one LinearTools instance and the calls made on it *)

Idle == [op |-> "idle"]

\* the credentials explored: a bare key, and one that begins with a scheme
\* word; the instance without client-bound conventions is built with the latter
ApiKeys == {"lin_api_k1", "Bearer lin_api_k2"}

Init ==
    /\ client \in Clients
    /\ api_key \in ApiKeys
    /\ client = {} <=> api_key = "Bearer lin_api_k2"
    /\ call = Idle
    /\ sent = <<>>
    /\ steps = <<>>
    /\ ret = Ok(PyNone)
    /\ queue = <<>>
    /\ is_running = FALSE
    /\ task = "none"
    /\ emitted = <<>>
    /\ pc = "idle"
    /\ history = <<>>

\* the caller takes the outcome of the finished call (of a streaming request,
\* once its generator has ended); the instance keeps no state of it
Return ==
    /\ call /= Idle
    /\ call.op = "process_query_stream" => pc = "done"
    /\ call' = Idle
    /\ sent' = <<>>
    /\ steps' = <<>>
    /\ ret' = Ok(PyNone)
    /\ queue' = <<>>
    /\ is_running' = FALSE
    /\ task' = "none"
    /\ emitted' = <<>>
    /\ pc' = "idle"
    /\ history' = <<>>
    /\ UNCHANGED <<client, api_key>>

ListIssues ==
    /\ call = Idle
    /\ \E params \in FilterSpecs, remote \in ListRemotes \cup PlainRemotes :
         /\ params \in PlainSpecs \/ remote \in PlainRemotes
         /\ call' = [op |-> "list_issues", params |-> params, remote |-> remote]
         /\ sent' = <<list_issues_request(params)>>
         /\ steps' = transport_steps(client, api_key, remote)
         /\ ret' = list_issues(client, params, remote)
         /\ UNCHANGED <<client, api_key, stream_vars>>

GetIssue ==
    /\ call = Idle
    /\ \E id \in GetInputs :
         \E remotes \in [1..Len(IdsOf(id)) -> AllGetRemotes] :
           /\ \A i \in 1..Len(IdsOf(id)) : remotes[i] \in GetRemotes(IdsOf(id)[i])
           /\ call' = [op |-> "get_issue", id |-> id, remotes |-> remotes]
           /\ sent' = [i \in 1..Len(IdsOf(id)) |->
                          [operation |-> "Issue", variables |-> [id |-> PyStr(IdsOf(id)[i])]]]
           /\ steps' = steps_of_all(client, api_key, remotes)
           /\ ret' = get_issue(client, id, remotes)
           /\ UNCHANGED <<client, api_key, stream_vars>>

GetCycleStatus ==
    /\ call = Idle
    /\ \E in \in CycleCalls :
         /\ call' = [op |-> "get_cycle_status", cycle_name |-> in.cycle_name,
                     remote |-> in.remote, now |-> in.now]
         /\ sent' = <<list_issues_request([cycle |-> in.cycle_name])>>
         /\ steps' = transport_steps(client, api_key, in.remote)
         /\ ret' = get_cycle_status(client, in.cycle_name, in.remote, in.now)
         /\ UNCHANGED <<client, api_key, stream_vars>>

\* the agent's CycleStatusTool: the wrapper reaches LinearTools only with a
\* truthy name
CycleStatusTool ==
    /\ call = Idle
    /\ \E cycle_name \in CycleNames, remote \in ListRemotes :
         /\ call' = [op |-> "get_cycle_status_tool_func", cycle_name |-> cycle_name,
                     remote |-> remote, now |-> 1]
         /\ sent' = IF Truthy(cycle_name)
                    THEN <<list_issues_request([cycle |-> cycle_name])>>
                    ELSE <<>>
         /\ steps' = IF Truthy(cycle_name) THEN transport_steps(client, api_key, remote)
                     ELSE <<>>
         /\ ret' = get_cycle_status_tool_func(client, cycle_name, remote, 1)
         /\ UNCHANGED <<client, api_key, stream_vars>>

\* one transport call on its own
TransportRequests ==
    {list_issues_request(PyNone),
     [operation |-> "Issue", variables |-> [id |-> PyStr("INF-10")]]}

TransportRemotes == AllGetRemotes \cup ListRemotes

ExecuteGraphql ==
    /\ call = Idle
    /\ \E request \in TransportRequests, remote \in TransportRemotes :
         /\ call' = [op |-> "_execute_graphql", remote |-> remote]
         /\ sent' = <<request>>
         /\ steps' = transport_steps(client, api_key, remote)
         /\ ret' = execute_graphql(client, remote)
         /\ UNCHANGED <<client, api_key, stream_vars>>

----------------------------------------------------------------------------
(* The streaming endpoint: one request to /query/stream.  handler, queue and *)
(* task are locals of its event generator; the generator and the agent task *)
(* are two tasks of one event loop, each running from one suspension point  *)
(* to the next.                                                             *)

\* the line of text a callback or the generator produces: json.dumps(d) + "\n"
Line(d) == json_dumps(d) \o "\n"

on_llm_new_token(q, token) ==
    IF token /= "" THEN Append(q, Line([type |-> PyStr("token"), content |-> PyStr(token)]))
    ELSE q

on_llm_end(q) == Append(q, Line([type |-> PyStr("llm_end")]))

on_tool_start(q, serialized) ==
    Append(q, Line([type |-> PyStr("tool_start"), tool |-> serialized.name]))

\* the callbacks the agent task makes on the handler
Tokens == {"", "Hi"}
Serialized == [name |-> PyStr("linear_get_cycle_status")]

Callbacks(q) ==
    {on_llm_new_token(q, token) : token \in Tokens}
    \cup {on_llm_end(q), on_tool_start(q, Serialized)}

\* what the agent task returns, and the text of what it raises
TaskResult == [message |-> PyStr("Sprint 19 is on track")]
TaskError == "Request timed out."
FactoryError == "OPENAI_API_KEY environment variable is required"

final_result(result) == Line([type |-> PyStr("final_result"), result |-> result])
error_event(text) == Line([type |-> PyStr("error"), error |-> PyStr(text)])

\* the test of the while loop: the generator waits on the queue again, or ends
loop_test(running, q) == IF running \/ q /= <<>> THEN "waiting" ELSE "done"

\* the generator runs up to its first wait on the queue: the handler is made,
\* the streaming agent is created (or its creation raises, which the generator
\* reports as an error event) and the agent task is started
StartStream ==
    /\ call = Idle
    /\ call' = [op |-> "process_query_stream"]
    /\ queue' = <<>>
    /\ is_running' = TRUE
    /\ history' = <<>>
    /\ \E created \in BOOLEAN :
         IF created
         THEN task' = "running" /\ emitted' = <<>> /\ pc' = loop_test(TRUE, <<>>)
         ELSE task' = "none" /\ emitted' = <<error_event(FactoryError)>> /\ pc' = "done"
    /\ UNCHANGED <<client, api_key, sent, steps, ret>>

\* the agent task runs while the generator is suspended: it makes a callback
AgentCallback ==
    /\ call.op = "process_query_stream"
    /\ task = "running"
    /\ pc \in {"waiting", "timed_out"}
    /\ Len(history) < MaxEvents
    /\ \E q \in Callbacks(queue) :
         /\ queue' = q
         /\ history' = history \o SubSeq(q, Len(queue) + 1, Len(q))
    /\ UNCHANGED <<client, api_key, call, sent, steps, ret, is_running, task, emitted, pc>>

\* the agent task ends: it returns its result or raises
AgentComplete ==
    /\ call.op = "process_query_stream"
    /\ task = "running"
    /\ pc \in {"waiting", "timed_out"}
    /\ task' \in {"succeeded", "failed"}
    /\ UNCHANGED <<client, api_key, call, sent, steps, ret, queue, is_running, emitted, pc,
                   history>>

\* wait_for returns the oldest event line, the generator yields it and tests
\* the loop condition
GetEvent ==
    /\ pc = "waiting"
    /\ queue /= <<>>
    /\ emitted' = Append(emitted, Head(queue))
    /\ queue' = Tail(queue)
    /\ pc' = loop_test(is_running, Tail(queue))
    /\ UNCHANGED <<client, api_key, call, sent, steps, ret, is_running, task, history>>

\* the queue stayed empty for the 0.1 s of wait_for: its timer fires, and the
\* generator is due to resume with TimeoutError
Timeout ==
    /\ pc = "waiting"
    /\ queue = <<>>
    /\ pc' = "timed_out"
    /\ UNCHANGED <<client, api_key, call, sent, steps, ret, queue, is_running, task, emitted,
                   history>>

\* the generator resumes in the except branch: when the task is done it calls
\* handler.done() and yields the final result, or task.result() raises and the
\* outer handler yields the error event and the generator ends
AfterTimeout ==
    /\ pc = "timed_out"
    /\ CASE task = "running" ->
              /\ pc' = loop_test(is_running, queue)
              /\ UNCHANGED <<is_running, emitted>>
         [] task = "succeeded" ->
              /\ is_running' = FALSE
              /\ emitted' = Append(emitted, final_result(TaskResult))
              /\ pc' = loop_test(FALSE, queue)
         [] task = "failed" ->
              /\ is_running' = FALSE
              /\ emitted' = Append(emitted, error_event(TaskError))
              /\ pc' = "done"
    /\ UNCHANGED <<client, api_key, call, sent, steps, ret, queue, task, history>>

Next ==
    \/ ListIssues \/ GetIssue \/ GetCycleStatus \/ CycleStatusTool \/ ExecuteGraphql
    \/ StartStream \/ AgentCallback \/ AgentComplete \/ GetEvent \/ Timeout \/ AfterTimeout
    \/ Return

Spec == Init /\ [][Next]_vars

NextCycle == GetCycleStatus \/ CycleStatusTool \/ Return

SpecCycle == Init /\ [][NextCycle]_vars

NextTransport == ExecuteGraphql \/ Return

SpecTransport == Init /\ [][NextTransport]_vars

NextList == ListIssues \/ Return

SpecList == Init /\ [][NextList]_vars

NextGet == GetIssue \/ Return

SpecGet == Init /\ [][NextGet]_vars

NextIssues == ListIssues \/ GetIssue \/ Return

SpecIssues == Init /\ [][NextIssues]_vars

NextStream ==
    \/ StartStream \/ AgentCallback \/ AgentComplete \/ GetEvent \/ Timeout \/ AfterTimeout
    \/ Return

SpecStream == Init /\ [][NextStream]_vars

\* the event loop runs every task that is ready: a generator that can take an
\* event, time out or resume does so
FairStream ==
    /\ Init
    /\ [][NextStream]_vars
    /\ WF_vars(GetEvent)
    /\ WF_vars(Timeout)
    /\ WF_vars(AfterTimeout)

----------------------------------------------------------------------------
(* Claims *)

PublicOps == {"list_issues", "get_issue", "get_cycle_status"}

\* C1: no public operation (list_issues, get_issue, get_cycle_status) ever
\* raises to its caller: whatever the input and whatever the remote side does,
\* the call returns a value.
C1_NeverRaises == call.op \in PublicOps => ~ret.raised

\* the transport returned a body whose issue is non-null and normalizes
SlotFetched(remote) ==
    LET r == execute_graphql(client, remote)
    IN /\ ~r.raised
       /\ IsDict(r.value)
       /\ "data" \in DOMAIN r.value
       /\ IsDict(r.value.data)
       /\ "issue" \in DOMAIN r.value.data
       /\ Truthy(r.value.data.issue)
       /\ ~normalize(r.value.data.issue).raised

IsErrorEntry(e) == DOMAIN e = {"error"} /\ IsStr(e.error)

\* C2: get_issue on a sequence of identifiers returns {issues: r} with one
\* entry per identifier, in the caller's order; entry i is the normalized
\* issue of identifier i when its own fetch succeeded with a non-null body and
\* an {error} entry otherwise, whatever happened to the other identifiers.
C2_BatchIsolation ==
    (call.op = "get_issue" /\ IsList(call.id)) =>
        /\ ~ret.raised
        /\ DOMAIN ret.value = {"issues"}
        /\ Len(ret.value.issues.list) = Len(call.id.list)
        /\ \A i \in 1..Len(call.id.list) :
             IF SlotFetched(call.remotes[i])
             THEN ret.value.issues.list[i] =
                      processed_issue(execute_graphql(client, call.remotes[i]).value.data.issue)
             ELSE IsErrorEntry(ret.value.issues.list[i])

\* a batch whose first identifier failed and whose second one was fetched
C2_Witness ==
    /\ call.op = "get_issue"
    /\ IsList(call.id)
    /\ Len(call.id.list) = 2
    /\ ~SlotFetched(call.remotes[1])
    /\ SlotFetched(call.remotes[2])
    /\ ret.value.issues.list[2].identifier = PyStr(call.id.list[2])

\* C3: get_issue with a single string identifier returns the issue record or
\* the {error} mapping itself, without an `issues` wrapper; with a sequence of
\* identifiers of any length it returns the {issues: [...]} wrapper.
C3_SingleUnwrapped ==
    call.op = "get_issue" =>
        /\ ~ret.raised
        /\ IsStr(call.id) =>
             /\ "issues" \notin DOMAIN ret.value
             /\ IF SlotFetched(call.remotes[1])
                THEN ret.value.identifier = call.id
                ELSE IsErrorEntry(ret.value)
        /\ IsList(call.id) =>
             /\ DOMAIN ret.value = {"issues"}
             /\ IsList(ret.value.issues)

\* a sequence of one identifier, answered with the wrapper
C3_Witness ==
    /\ call.op = "get_issue"
    /\ IsList(call.id)
    /\ Len(call.id.list) = 1
    /\ SlotFetched(call.remotes[1])
    /\ DOMAIN ret.value = {"issues"}

\* the transport returned a well-formed body whose issue is null
NullBody(remote) ==
    LET r == execute_graphql(client, remote)
    IN /\ ~r.raised
       /\ IsDict(r.value)
       /\ "data" \in DOMAIN r.value
       /\ IsDict(r.value.data)
       /\ "issue" \in DOMAIN r.value.data
       /\ IsNone(r.value.data.issue)

\* the entry of the i-th identifier of the call
EntryOf(i) == IF IsStr(call.id) THEN ret.value ELSE ret.value.issues.list[i]

\* C4: when the transport succeeds but the body's issue is null, the entry of
\* that identifier is the {error} "Issue with ID <id> not found", and no
\* transport failure for the same identifier produces that message.
C4_NotFoundDistinct ==
    call.op = "get_issue" =>
        \A i \in 1..Len(IdsOf(call.id)) :
            NullBody(call.remotes[i]) =>
                /\ EntryOf(i) = ErrorEntry("Issue with ID " \o IdsOf(call.id)[i] \o " not found")
                /\ \A f \in GetRemotes(IdsOf(call.id)[i]) :
                     execute_graphql(client, f).raised =>
                         get_issue_slot(client, IdsOf(call.id)[i], f) /= EntryOf(i)

\* a single identifier whose issue body is null
C4_Witness ==
    /\ call.op = "get_issue"
    /\ IsStr(call.id)
    /\ NullBody(call.remotes[1])
    /\ IsErrorEntry(ret.value)

\* the nodes of a well-formed list response, else none
ReturnedNodes(remote) ==
    LET r == execute_graphql(client, remote)
    IN IF /\ ~r.raised
          /\ IsDict(r.value)
          /\ "data" \in DOMAIN r.value
          /\ IsDict(r.value.data)
          /\ "issues" \in DOMAIN r.value.data
          /\ IsDict(r.value.data.issues)
          /\ "nodes" \in DOMAIN r.value.data.issues
          /\ IsList(r.value.data.issues.nodes)
       THEN <<r.value.data.issues.nodes.list>>
       ELSE <<>>

\* C5: list_issues is all-or-nothing: a transport failure, a response without
\* data.issues, or one node that cannot be normalized yields exactly one
\* {error: message} and never a partial nodes list; otherwise the result is
\* {nodes} with the normalized record of every returned node, in order.
C5_AllOrNothing ==
    call.op = "list_issues" =>
        /\ ~ret.raised
        /\ IF \/ ReturnedNodes(call.remote) = <<>>
              \/ \E i \in DOMAIN ReturnedNodes(call.remote)[1] :
                    normalize(ReturnedNodes(call.remote)[1][i]).raised
           THEN IsErrorEntry(ret.value)
           ELSE /\ DOMAIN ret.value = {"nodes"}
                /\ Len(ret.value.nodes.list) = Len(ReturnedNodes(call.remote)[1])
                /\ \A i \in DOMAIN ReturnedNodes(call.remote)[1] :
                     ret.value.nodes.list[i] = processed_issue(ReturnedNodes(call.remote)[1][i])

\* a response whose first node normalizes and whose second one does not
C5_Witness ==
    /\ call.op = "list_issues"
    /\ ReturnedNodes(call.remote) /= <<>>
    /\ Len(ReturnedNodes(call.remote)[1]) = 2
    /\ ~normalize(ReturnedNodes(call.remote)[1][1]).raised
    /\ normalize(ReturnedNodes(call.remote)[1][2]).raised
    /\ IsErrorEntry(ret.value)

\* the fragments the call compiled into its request
Compiled == Range(sent[1].filter_parts)

\* the numeric code of each priority name
PriorityCode == [urgent |-> 1, high |-> 2, medium |-> 3, low |-> 4, none |-> 0]

\* C6: a priority given as one of the texts urgent, high, medium, low, none, in
\* any letter case, compiles to the predicate priority eq 1, 2, 3, 4, 0
\* respectively; any other priority text compiles to no priority predicate.
C6_PriorityText ==
    (/\ call.op = "list_issues"
     /\ IsDict(call.params)
     /\ "priority" \in DOMAIN call.params
     /\ IsStr(call.params["priority"])) =>
        IF lower(call.params["priority"].str) \in DOMAIN PriorityCode
        THEN Frag("priority", "", "eq",
                  ToString(PriorityCode[lower(call.params["priority"].str)]), FALSE)
                 \in Compiled
        ELSE \A f \in Compiled : f.key /= "priority"

\* C7: a priority given as a number p in 0..4, 0 included, compiles to the
\* predicate priority eq p.
C7_PriorityNumber ==
    (/\ call.op = "list_issues"
     /\ IsDict(call.params)
     /\ "priority" \in DOMAIN call.params
     /\ IsInt(call.params["priority"])
     /\ call.params["priority"].int \in 0..4) =>
        Frag("priority", "", "eq", ToString(call.params["priority"].int), FALSE) \in Compiled

\* a fragment that tests the assignee's name
IsAssigneeName(f) == f.key = "assignee" /\ f.sub = "name"
\* a fragment that tests the assignee's id
IsAssigneeId(f) == f.key = "assignee" /\ f.sub = "id"
\* the fragment that tests for a null assignee
NullAssignee == Frag("assignee", "", "null", "true", FALSE)

\* C8: an assigneeId that is present and not UUID-shaped compiles to an
\* assignee-name predicate on that value, and to no assignee-id predicate.
C8_AssigneeIdAsName ==
    (/\ call.op = "list_issues"
     /\ IsDict(call.params)
     /\ "assigneeId" \in DOMAIN call.params
     /\ call.params["assigneeId"] /= PyStr(UuidText)) =>
        /\ \E f \in Compiled : IsAssigneeName(f) /\ f.val = call.params["assigneeId"].str
        /\ \A f \in Compiled : ~IsAssigneeId(f)

\* C9: with unassigned true, whatever assignee or assigneeId comes with it, the
\* compiled filter holds the null-assignee predicate and no assignee-name or
\* assignee-id predicate.
C9_UnassignedWins ==
    (/\ call.op = "list_issues"
     /\ IsDict(call.params)
     /\ "unassigned" \in DOMAIN call.params
     /\ call.params["unassigned"] = PyBool(TRUE)) =>
        /\ NullAssignee \in Compiled
        /\ \A f \in Compiled : ~IsAssigneeName(f) /\ ~IsAssigneeId(f)

\* the body of the POST carries a non-empty errors array
NonEmptyErrors(json) ==
    /\ "errors" \in DOMAIN json
    /\ IsList(json.errors)
    /\ Len(json.errors.list) > 0

\* the call went down the direct-HTTP path
HttpPath == FirstExposed(client) = "none" \/ call.remote.bound.raised

\* C10: on the direct-HTTP path the transport fails exactly when the status is
\* not 200 or the decoded body carries a non-empty errors array; a status-200
\* body without an errors key, or with an empty errors array, is the result.
C10_HttpFailure ==
    (call.op = "_execute_graphql" /\ HttpPath) =>
        /\ ret.raised <=> (\/ call.remote.http.status /= 200
                           \/ NonEmptyErrors(call.remote.http.json))
        /\ ~ret.raised => ret.value = call.remote.http.json

\* the keys the dict literal subscripts on the raw node
RawKeys ==
    {"id", "title", "identifier", "description", "priority", "createdAt", "updatedAt"}
    \cup NestedKeys

\* rec holds, for each nested object of raw, that object's derived fields
\* when it is non-null and null (labels: the empty sequence) when it is null
DerivedFields(raw, rec) ==
    /\ IF IsNone(raw.state)
       THEN rec.status = PyNone /\ rec.state_type = PyNone /\ rec.state_id = PyNone
       ELSE /\ rec.status = raw.state.name
            /\ rec.state_type = raw.state.type
            /\ rec.state_id = raw.state.id
    /\ IF IsNone(raw.assignee)
       THEN rec.assignee = PyNone /\ rec.assignee_id = PyNone
       ELSE rec.assignee = raw.assignee.name /\ rec.assignee_id = raw.assignee.id
    /\ IF IsNone(raw.team)
       THEN rec.team = PyNone /\ rec.team_id = PyNone /\ rec.team_key = PyNone
       ELSE /\ rec.team = raw.team.name
            /\ rec.team_id = raw.team.id
            /\ rec.team_key = raw.team.key
    /\ IF IsNone(raw.cycle)
       THEN rec.cycle = PyNone
       ELSE rec.cycle = [id |-> raw.cycle.id, name |-> raw.cycle.name,
                         number |-> raw.cycle.number, starts_at |-> raw.cycle.startsAt,
                         ends_at |-> raw.cycle.endsAt]
    /\ IF IsNone(raw.labels)
       THEN rec.labels = PyList(<<>>)
       ELSE /\ Len(rec.labels.list) = Len(raw.labels.nodes.list)
            /\ \A j \in DOMAIN raw.labels.nodes.list :
                 rec.labels.list[j] = [id |-> raw.labels.nodes.list[j].id,
                                       name |-> raw.labels.nodes.list[j].name,
                                       color |-> raw.labels.nodes.list[j].color]

\* the non-null issue of a well-formed get_issue response, else none
RawIssue(remote) ==
    LET r == execute_graphql(client, remote)
    IN IF /\ ~r.raised
          /\ IsDict(r.value)
          /\ "data" \in DOMAIN r.value
          /\ IsDict(r.value.data)
          /\ "issue" \in DOMAIN r.value.data
          /\ IsDict(r.value.data.issue)
       THEN <<r.value.data.issue>>
       ELSE <<>>

\* C11: normalization is total on null nested objects: a raw node that carries
\* every key of the record yields, in list_issues and in get_issue alike, a
\* record and no failure; the record has status, state_type, state_id,
\* assignee, assignee_id, team, team_id, team_key and cycle null and labels the
\* empty sequence where the nested object is null, and exactly the nested
\* object's own fields where it is not.
C11_NormalizeTotal ==
    /\ (/\ call.op = "list_issues"
        /\ ReturnedNodes(call.remote) /= <<>>
        /\ \A i \in DOMAIN ReturnedNodes(call.remote)[1] :
              RawKeys \subseteq DOMAIN ReturnedNodes(call.remote)[1][i]) =>
           /\ ~ret.raised
           /\ DOMAIN ret.value = {"nodes"}
           /\ \A i \in DOMAIN ReturnedNodes(call.remote)[1] :
                DerivedFields(ReturnedNodes(call.remote)[1][i], ret.value.nodes.list[i])
    /\ call.op = "get_issue" =>
           \A i \in 1..Len(IdsOf(call.id)) :
               (/\ RawIssue(call.remotes[i]) /= <<>>
                /\ RawKeys \subseteq DOMAIN RawIssue(call.remotes[i])[1]) =>
                   /\ ~IsErrorEntry(EntryOf(i))
                   /\ DerivedFields(RawIssue(call.remotes[i])[1], EntryOf(i))

\* a list whose first node has every nested object null and whose second one
\* has a state only
C11_Witness ==
    /\ call.op = "list_issues"
    /\ ReturnedNodes(call.remote) /= <<>>
    /\ Len(ReturnedNodes(call.remote)[1]) = 2
    /\ \A k \in NestedKeys : IsNone(ReturnedNodes(call.remote)[1][1][k])
    /\ \A k \in NestedKeys : IsNone(ReturnedNodes(call.remote)[1][2][k]) <=> k /= "state"
    /\ ret.value.nodes.list[1].labels = PyList(<<>>)
    /\ ret.value.nodes.list[1].status = PyNone
    /\ ret.value.nodes.list[2].status = PyStr("Done")
    /\ ret.value.nodes.list[2].team = PyNone

\* the call returned a CycleStatus
IsCycleStatus == call.op = "get_cycle_status" /\ ~ret.raised /\ "ticket_counts" \in DOMAIN ret.value

\* C12: every CycleStatus returned by get_cycle_status has
\* completed + remaining = total, 0 <= completed <= total, and percentage equal
\* to completed / total * 100 (0 when total is 0).
C12_CountsAddUp ==
    IsCycleStatus =>
        LET t == ret.value.ticket_counts
            pct == Num(ret.value.completion_stats.percentage)
        IN /\ t.completed.int + t.remaining.int = t.total.int
           /\ 0 <= t.completed.int
           /\ t.completed.int <= t.total.int
           /\ IF t.total.int = 0 THEN pct.num = 0
              ELSE pct.num * t.total.int = t.completed.int * 100 * pct.den

\* a status over two issues, both completed
C12_Witness ==
    /\ IsCycleStatus
    /\ ret.value.ticket_counts.total = PyInt(2)
    /\ ret.value.ticket_counts.completed = PyInt(2)
    /\ ret.value.ticket_counts.remaining = PyInt(0)
    /\ ret.value.completion_stats.percentage = PyFloat(100, 1)

\* the spec's scenario: 20 issues, 5 Done and 15 In Progress, a 14-day cycle,
\* now 5 days after its start
ExampleNodes ==
    [i \in 1..20 |->
        processed_issue([FullNode(PosId(i)) EXCEPT
                            !.state = StateOf(IF i <= 5 THEN "Done" ELSE "In Progress")])]

ExampleReport ==
    cycle_report(ExampleNodes, ExampleNodes[1].cycle, 14 * UnitsPerDay, 0, 5 * UnitsPerDay)

\* C13: for every successful get_cycle_status with total_days > 0, on_track is
\* false whenever days_left <= 0, and otherwise true exactly when
\* completed / total * 100 >= days_passed / total_days * 100; 20 issues with 5
\* Done, a 14-day cycle and now 5 days after the start give percentage 25,
\* remaining 15 and on_track false.
C13_OnTrack ==
    /\ (IsCycleStatus /\ ret.value.cycle_details.total_days.int > 0) =>
           LET d == ret.value.cycle_details
               t == ret.value.ticket_counts
           IN ret.value.progress_tracking.on_track.bool <=>
                  /\ d.days_left.int > 0
                  /\ t.completed.int * d.total_days.int >= d.days_passed.int * t.total.int
    /\ ~ExampleReport.raised
    /\ ExampleReport.value.completion_stats.percentage = PyFloat(25, 1)
    /\ ExampleReport.value.ticket_counts.remaining = PyInt(15)
    /\ ExampleReport.value.progress_tracking.on_track = PyBool(FALSE)

\* half of the issues done at half of the cycle: on track
C13_Witness ==
    /\ IsCycleStatus
    /\ ret.value.cycle_details.total_days = PyInt(2)
    /\ ret.value.cycle_details.days_passed = PyInt(1)
    /\ ret.value.cycle_details.days_left = PyInt(1)
    /\ ret.value.ticket_counts.total = PyInt(2)
    /\ ret.value.ticket_counts.completed = PyInt(1)
    /\ ret.value.progress_tracking.on_track = PyBool(TRUE)

\* the raw cycle data get_cycle_status works from: that of the first returned
\* node that carries any, when every returned node normalizes
CalledCycle ==
    IF /\ call.op = "get_cycle_status"
       /\ ReturnedNodes(call.remote) /= <<>>
       /\ \A i \in DOMAIN ReturnedNodes(call.remote)[1] :
             RawKeys \subseteq DOMAIN ReturnedNodes(call.remote)[1][i]
    THEN cycle_info_of(ReturnedNodes(call.remote)[1])
    ELSE PyNone

\* the called cycle starts and ends less than one whole day apart
ZeroDayCycle ==
    /\ IsDict(CalledCycle)
    /\ ~parse(CalledCycle.startsAt).raised
    /\ ~parse(CalledCycle.endsAt).raised
    /\ days(parse(CalledCycle.endsAt).value - parse(CalledCycle.startsAt).value) = 0

\* C14: get_cycle_status on a cycle whose total_days is 0 never fails with a
\* division by zero, whether now is before, inside or after the cycle: it
\* returns a result whose elapsed-time percentage is 100.
C14_ZeroDaysGuarded ==
    ZeroDayCycle =>
        /\ ~ret.raised
        /\ "completion_stats" \in DOMAIN ret.value
        /\ ret.value.completion_stats.time_elapsed_percentage = PyInt(100)

\* C15: get_cycle_status called with an empty or absent cycle name, on
\* LinearTools or through the tool wrapper, returns an {error} result and
\* sends no remote query; it never returns a CycleStatus.
C15_EmptyNameRejected ==
    (/\ call.op \in {"get_cycle_status", "get_cycle_status_tool_func"}
     /\ ~Truthy(call.cycle_name)) =>
        /\ ~ret.raised
        /\ IsErrorEntry(ret.value)
        /\ sent = <<>>

\* the list query of the call came back with an empty nodes list
NoIssuesReturned ==
    /\ call.op = "get_cycle_status"
    /\ ReturnedNodes(call.remote) = <<(<<>>)>>

\* C16: when the list query for the cycle returns zero issues,
\* get_cycle_status returns the "No issues found" {error}: it sends nothing
\* beyond the list query, and neither the cycle-metadata lookup's error nor a
\* failure of the date arithmetic is its outcome.
C16_NoIssuesError ==
    NoIssuesReturned =>
        /\ ret = Ok(ErrorEntry("No issues found for cycle '" \o Format(call.cycle_name)
                               \o "' or cycle does not exist"))
        /\ Len(sent) = 1
        /\ sent[1].operation = "Issues"

\* a named cycle whose list query returned no issue
C16_Witness ==
    /\ NoIssuesReturned
    /\ call.cycle_name = PyStr("Sprint 19")
    /\ IsErrorEntry(ret.value)

\* text occurs within msg
Contains(msg, text) ==
    \E i \in 1..(Len(msg) - Len(text) + 1) : SubSeq(msg, i, i + Len(text) - 1) = text

\* the value is an {error} whose message embeds what the transport raised
EmbedsFailure(value, remote) ==
    /\ IsErrorEntry(value)
    /\ Contains(value.error.str, execute_graphql(client, remote).exc)

\* C17: whenever the transport fails under list_issues, get_issue or
\* get_cycle_status, the {error} the operation returns embeds the text of the
\* transport's failure (the status and body, or the GraphQL errors payload).
C17_FailureTextEmbedded ==
    /\ (/\ call.op \in {"list_issues", "get_cycle_status"}
        /\ execute_graphql(client, call.remote).raised) =>
           ~ret.raised /\ EmbedsFailure(ret.value, call.remote)
    /\ call.op = "get_issue" =>
           \A i \in 1..Len(IdsOf(call.id)) :
               execute_graphql(client, call.remotes[i]).raised =>
                   EmbedsFailure(EntryOf(i), call.remotes[i])

\* the client-bound calls among the steps, by convention name
BoundCalls ==
    LET bound == SelectSeq(steps, LAMBDA st : st.via /= "post")
    IN [i \in DOMAIN bound |-> bound[i].via]

\* the conventions the client exposes, in the fixed order
Exposed == SelectSeq(Conventions, LAMBDA m : m \in client)

\* C18: the transport attempts the conventions the client exposes in the order
\* query, raw_query, execute, graphql; a convention that fails is followed by
\* the next exposed one, and the first that returns ends the chain with its
\* result.
C18_ConventionChain ==
    call.op = "_execute_graphql" =>
        IF call.remote.bound.raised
        THEN BoundCalls = Exposed
        ELSE Exposed /= <<>> =>
                 /\ BoundCalls = <<Exposed[1]>>
                 /\ ret = Ok(call.remote.bound.value)

\* the POSTs among the steps
Posts == SelectSeq(steps, LAMBDA st : st.via = "post")

\* C19: in every execution of the transport the direct POST is issued exactly
\* when no client-bound convention returned (none is exposed, or the attempted
\* one failed), at most once whatever the endpoint answers, with an
\* Authorization header equal to the credential unchanged.
C19_PostFallback ==
    call.op = "_execute_graphql" =>
        /\ Len(Posts) = IF Exposed = <<>> \/ call.remote.bound.raised THEN 1 ELSE 0
        /\ \A i \in DOMAIN Posts :
             /\ Posts[i].headers["Authorization"] = api_key
             /\ Posts[i].url = "https://api.linear.app/graphql"

\* the attempted convention failed, the POST was refused, and it was not
\* issued again
C19_Witness ==
    /\ call.op = "_execute_graphql"
    /\ Exposed /= <<>>
    /\ call.remote.bound.raised
    /\ call.remote.http.status = 500
    /\ ret.raised
    /\ Len(Posts) = 1
    /\ Posts[1].headers["Authorization"] = api_key

\* the fields of a FilterSpec that select issues
FilterFields ==
    {"teamId", "projectId", "labelId", "label", "stateId", "status", "priority",
     "assignee", "title", "cycle"}

\* the attribute of the issue each field is matched against
TargetOf ==
    [teamId |-> <<"team", "id">>, projectId |-> <<"project", "id">>,
     labelId |-> <<"labels", "id">>, label |-> <<"labels", "name">>,
     stateId |-> <<"state", "id">>, status |-> <<"state", "name">>,
     priority |-> <<"priority", "">>, assignee |-> <<"assignee", "name">>,
     title |-> <<"title", "">>, cycle |-> <<"cycle", "name">>]

\* the compiled fragments that come from field k
FragsOf(k) ==
    IF k = "assignee" THEN SelectSeq(sent[1].filter_parts, LAMBDA f : f.key = "assignee")
    ELSE SelectSeq(sent[1].filter_parts,
                   LAMBDA f : <<f.key, f.sub>> = TargetOf[k])

\* a list_issues call whose FilterSpec stays clear of priority 0, assigneeId
\* and unassigned
FilterCall ==
    /\ call.op = "list_issues"
    /\ IsDict(call.params)
    /\ "assigneeId" \notin DOMAIN call.params
    /\ "unassigned" \notin DOMAIN call.params
    /\ Get(call.params, "priority") /= PyInt(0)

\* field k is present: it has a value other than null and the empty text (the
\* empty assignee is the unassigned sentinel and counts as present)
Present(k) ==
    /\ k \in DOMAIN call.params
    /\ ~IsNone(call.params[k])
    /\ k = "assignee" \/ call.params[k] /= PyStr("")

\* each present field has exactly one fragment, each absent one none, and the
\* fragment of field k uses the operator ops[k]
OnePerField(ops) ==
    /\ \A k \in FilterFields :
         IF Present(k)
         THEN /\ Len(FragsOf(k)) = 1
              /\ FragsOf(k)[1].op =
                     IF k = "assignee" /\ call.params[k] = PyStr("") THEN "null" ELSE ops[k]
         ELSE Len(FragsOf(k)) = 0
    /\ Len(sent[1].filter_parts) = Cardinality({k \in FilterFields : Present(k)})

\* C20 as stated: for every FilterSpec the compiled filter holds exactly one
\* predicate per present field, with equality for teamId, projectId, labelId,
\* stateId, status, priority and cycle, and a contains match for assignee,
\* title and label.
C20_OnePerField ==
    FilterCall =>
        OnePerField([teamId |-> "eq", projectId |-> "eq", labelId |-> "eq",
                     stateId |-> "eq", status |-> "eq", priority |-> "eq", cycle |-> "eq",
                     assignee |-> "contains", title |-> "contains", label |-> "contains"])

\* C20 amended: for every FilterSpec the compiled filter holds exactly one
\* predicate per present field, with equality for teamId, projectId, labelId,
\* label, stateId, status, priority and cycle, and a contains match for
\* assignee and title only (the empty assignee compiles to the null test).
C20_LabelEquality ==
    FilterCall =>
        OnePerField([teamId |-> "eq", projectId |-> "eq", labelId |-> "eq",
                     stateId |-> "eq", status |-> "eq", priority |-> "eq", cycle |-> "eq",
                     assignee |-> "contains", title |-> "contains", label |-> "eq"])

\* a FilterSpec with a label and a title
C20_Witness ==
    /\ FilterCall
    /\ DOMAIN call.params = {"label", "title"}
    /\ sent[1].filter_parts =
           <<Frag("labels", "name", "eq", "bug", TRUE), Frag("title", "", "contains", "login", TRUE)>>

\* the attributes of the record that are derived from the raw key k
AttrsOf(k) ==
    CASE k = "state" -> {"status", "state_type", "state_id"}
      [] k = "assignee" -> {"assignee", "assignee_id"}
      [] k = "team" -> {"team", "team_id", "team_key"}
      [] k = "createdAt" -> {"created_at"}
      [] k = "updatedAt" -> {"updated_at"}
      [] OTHER -> {k}

\* rec is a record in which the attributes derived from the keys raw lacks
\* are null (labels: the empty sequence)
MissingAsNull(raw, rec) ==
    /\ ~IsErrorEntry(rec)
    /\ \A k \in RawKeys \ DOMAIN raw :
         \A a \in AttrsOf(k) :
             /\ a \in DOMAIN rec
             /\ rec[a] = IF a = "labels" THEN PyList(<<>>) ELSE PyNone

\* C21: normalizing a raw node that lacks a field altogether (a scalar, or
\* one of state, assignee, team, cycle, labels) never fails, in list_issues
\* and in get_issue alike: the attributes derived from the missing field are
\* null (labels: the empty sequence).
C21_MissingFieldTolerated ==
    /\ (call.op = "list_issues" /\ ReturnedNodes(call.remote) /= <<>>) =>
           /\ ~ret.raised
           /\ DOMAIN ret.value = {"nodes"}
           /\ \A i \in DOMAIN ReturnedNodes(call.remote)[1] :
                MissingAsNull(ReturnedNodes(call.remote)[1][i], ret.value.nodes.list[i])
    /\ call.op = "get_issue" =>
           \A i \in 1..Len(IdsOf(call.id)) :
               RawIssue(call.remotes[i]) /= <<>> =>
                   MissingAsNull(RawIssue(call.remotes[i])[1], EntryOf(i))

\* the sum of the counts of a by_status mapping
RECURSIVE SumCounts(_, _)
SumCounts(by_status, ks) ==
    IF ks = {} THEN 0
    ELSE LET k == CHOOSE x \in ks : TRUE
         IN by_status[k].int + SumCounts(by_status, ks \ {k})

\* the raw nodes the list query of the call returned
CycleIssues == ReturnedNodes(call.remote)[1]

\* the positions of the returned issues that satisfy Test
Where(Test(_)) == {i \in DOMAIN CycleIssues : Test(CycleIssues[i])}

HasStatus(raw) == ~IsNone(raw.state)

\* C22: in every CycleStatus, issues whose status is null are excluded from
\* every count and group: total counts only the issues with a non-null status
\* and equals the sum of the by_status counts, and completed + remaining
\* counts those issues only.
C22_NullStatusExcluded ==
    IsCycleStatus =>
        LET t == ret.value.ticket_counts
        IN /\ t.total.int = Cardinality(Where(HasStatus))
           /\ t.total.int = SumCounts(t.by_status, DOMAIN t.by_status)
           /\ t.completed.int + t.remaining.int = Cardinality(Where(HasStatus))

\* the spellings of the completed statuses the explored issues carry
CompletedSpellings == {"Done", "DONE", "Completed", "cancelled", "Canceled"}

IsCompleted(raw) == ~IsNone(raw.state) /\ raw.state.name.str \in CompletedSpellings

\* C23: in every CycleStatus, completed is the number of returned issues whose
\* status is, letter case aside, one of done, completed, cancelled, canceled;
\* an issue with any other status, or none, is not counted as completed.
C23_CompletedStatuses ==
    IsCycleStatus =>
        /\ ret.value.ticket_counts.completed.int = Cardinality(Where(IsCompleted))
        /\ \A i \in Where(HasStatus) :
             IsCompleted(CycleIssues[i]) <=>
                 lower(CycleIssues[i].state.name.str) \in CompletedNames

\* two issues, one DONE and one Undone
C23_Witness ==
    /\ IsCycleStatus
    /\ Len(CycleIssues) = 2
    /\ \A i \in 1..2 : HasStatus(CycleIssues[i])
    /\ CycleIssues[1].state.name = PyStr("DONE")
    /\ CycleIssues[2].state.name = PyStr("Undone")
    /\ ret.value.ticket_counts.completed = PyInt(1)

\* get_cycle_status was called and its list query returned at least one issue
IssuesReturned ==
    /\ call.op = "get_cycle_status"
    /\ ReturnedNodes(call.remote) /= <<>>
    /\ Len(ReturnedNodes(call.remote)[1]) > 0
    /\ \A i \in DOMAIN ReturnedNodes(call.remote)[1] :
          RawKeys \subseteq DOMAIN ReturnedNodes(call.remote)[1][i]

HasCycle(raw) == ~IsNone(raw.cycle)

\* the position of the first returned issue that carries cycle data
FirstWithCycle == CHOOSE i \in Where(HasCycle) : \A j \in Where(HasCycle) : i <= j

\* C24: when get_cycle_status returns a result, the name, number, starts_at
\* and ends_at of cycle_details are those of the first returned issue whose
\* cycle is non-null; when no returned issue carries cycle data the result is
\* an {error} alone, without counts or dates.
C24_FirstCycleData ==
    IssuesReturned =>
        IF Where(HasCycle) = {}
        THEN ~ret.raised /\ IsErrorEntry(ret.value)
        ELSE ~ret.raised =>
                LET d == ret.value.cycle_details
                    c == CycleIssues[FirstWithCycle].cycle
                IN /\ IsCycleStatus
                   /\ d.name = c.name
                   /\ d.number = c.number
                   /\ d.starts_at = c.startsAt
                   /\ d.ends_at = c.endsAt

\* an issue without cycle data, then one of cycle 7: the details are those of
\* the second issue
C24_Witness ==
    /\ IssuesReturned
    /\ Len(CycleIssues) = 2
    /\ Where(HasCycle) = {2}
    /\ CycleIssues[2].cycle.number = PyInt(7)
    /\ IsCycleStatus
    /\ ret.value.cycle_details.number = PyInt(7)

\* the returned issues of status s, in returned order
IssuesOfStatus(s) ==
    SelectSeq(CycleIssues, LAMBDA raw : HasStatus(raw) /\ raw.state.name = PyStr(s))

\* the {id, title} entry of an issue: its human-readable identifier and title
GroupEntry(raw) == [id |-> raw.identifier, title |-> raw.title]

\* C25: in every CycleStatus, issues_by_status has the keys of by_status, and
\* under each status s it lists, in returned order, {id, title} of the issues
\* of that status, id being the issue's identifier (not its internal id); the
\* length of each list is by_status[s].
C25_IssuesByStatus ==
    IsCycleStatus =>
        LET g == ret.value.issues_by_status
            by_status == ret.value.ticket_counts.by_status
        IN /\ DOMAIN g = DOMAIN by_status
           /\ \A s \in DOMAIN g :
                 /\ IsList(g[s])
                 /\ g[s].list = [i \in DOMAIN IssuesOfStatus(s) |->
                                    GroupEntry(IssuesOfStatus(s)[i])]
                 /\ by_status[s] = PyInt(Len(g[s].list))

\* two Done issues INF-11 and INF-12, listed in that order
C25_Witness ==
    /\ IsCycleStatus
    /\ DOMAIN ret.value.issues_by_status = {"Done"}
    /\ ret.value.issues_by_status["Done"] =
           PyList(<<[id |-> PyStr("INF-11"), title |-> PyStr("Title INF-11")],
                    [id |-> PyStr("INF-12"), title |-> PyStr("Title INF-12")]>>)
    /\ ret.value.ticket_counts.by_status["Done"] = PyInt(2)

\* C26: in the filter compiled by list_issues no two fragments share a
\* top-level filter key, so that each present field is a term of its own in
\* the one filter object, also when labelId and label, or stateId and status,
\* are both supplied.
C26_DistinctFilterKeys ==
    (call.op = "list_issues" /\ Len(sent) > 0) =>
        \A i, j \in DOMAIN sent[1].filter_parts :
            sent[1].filter_parts[i].key = sent[1].filter_parts[j].key => i = j

\* the verdict compared the completion percentage against the elapsed time
VerdictCompared == IsCycleStatus /\ ret.value.cycle_details.days_left.int > 0

\* C27: in every CycleStatus whose verdict compared the completion percentage
\* against the elapsed time, time_elapsed_percentage is the compared value,
\* days_passed / total_days * 100, whatever starts_at, ends_at and now are.
C27_ElapsedIsCompared ==
    VerdictCompared =>
        LET d == ret.value.cycle_details
            e == Num(ret.value.completion_stats.time_elapsed_percentage)
        IN e.num * d.total_days.int = d.days_passed.int * 100 * e.den

\* the event line is of the given type
OfType(line, type) == Contains(line, "\"type\": \"" \o type \o "\"")

IsTerminal(line) == OfType(line, "final_result") \/ OfType(line, "error")

TaskCompleted == task \in {"succeeded", "failed"}

\* the generator has ended after the agent task completed
Terminated == call.op = "process_query_stream" /\ TaskCompleted /\ pc = "done"

\* C28, what the generator has emitted when it ends: once the agent task has
\* completed and the generator has ended, exactly one terminal event was
\* emitted, final_result when the task succeeded and error when it failed, and
\* every event line the callbacks put on the queue was emitted, in queue
\* order, before it.
C28_TerminalEventLast ==
    Terminated =>
        /\ Len(emitted) > 0
        /\ Cardinality({i \in DOMAIN emitted : IsTerminal(emitted[i])}) = 1
        /\ OfType(emitted[Len(emitted)],
                  IF task = "succeeded" THEN "final_result" ELSE "error")
        /\ SubSeq(emitted, 1, Len(emitted) - 1) = history

\* C28, termination: once the agent task has completed, the generator
\* eventually ends.
C28_Terminates == TaskCompleted ~> (pc = "done")

====
